---- MODULE Spec2Model ----
(***************************************************************************)
(* Linux Command TUI Helper (src/main.py): the session loop of main(), the *)
(* conversation context {mode, topic, history}, the prompt formatters and  *)
(* the streaming generator ask_ollama().                                   *)
(*                                                                         *)
(* Python strings are TLA+ strings (Len, \o and SubSeq work on them).      *)
(* None is written "None".  One iteration of `while True` is split at the  *)
(* points where the program blocks: reading a line, posting the request,   *)
(* pulling the next streamed line.                                         *)
(***************************************************************************)
EXTENDS Integers, Sequences, FiniteSets, TLC

VARIABLES
    pc,               \* "start" | "prompt" | "post" | "stream" | "display" | "done" | "exit1"
    current_context,  \* main.py:293   {"mode", "topic", "history"}
    user_input,       \* main.py:309   the stripped line of this turn
    is_followup,      \* main.py:332
    query,            \* main.py:339/344/349
    prompt,           \* main.py:356/360/365   the prompt of the request
    response_mode,    \* main.py:358/362/367
    full_response,    \* main.py:372/376   main()'s accumulator
    gen_full,         \* main.py:58/64     ask_ollama()'s own accumulator
    lines,            \* the lines response.iter_lines() has produced in this call
    delivered,        \* the chunks ask_ollama() has yielded in this call
    shown,            \* what this turn has printed on the console
    calls,            \* number of generation requests made so far
    streamed,         \* number of lines the server has streamed so far
    prev_context,     \* the context as it was when this turn's line was read
    stream,           \* main.py:47   the stream argument of a direct ask_ollama() call
    body,             \* the body the server answers that call with
    result,           \* what the caller of ask_ollama(prompt, stream) gets back
    probe,            \* main.py:42   what GET /api/tags came back with
    available         \* main.py:284  what check_ollama() returned

vars == <<pc, current_context, user_input, is_followup, query, prompt,
          response_mode, full_response, gen_full, lines, delivered, shown,
          calls, streamed, prev_context, stream, body, result, probe,
          available>>

-----------------------------------------------------------------------------
(* Bounds of the model *)

\* generation requests per session
MaxCalls == 2
\* lines the server streams over the session
MaxLines == 2

-----------------------------------------------------------------------------
(* str.strip(), str.lower(), str.split(maxsplit=1) *)

Whitespace == {" ", "\t", "\n"}

CharAt(s, i) == SubSeq(s, i, i)

\* str.lower() on one character (ASCII letters)
lower_char(c) ==
    CASE c = "A" -> "a" [] c = "B" -> "b" [] c = "C" -> "c" [] c = "D" -> "d"
      [] c = "E" -> "e" [] c = "F" -> "f" [] c = "G" -> "g" [] c = "H" -> "h"
      [] c = "I" -> "i" [] c = "J" -> "j" [] c = "K" -> "k" [] c = "L" -> "l"
      [] c = "M" -> "m" [] c = "N" -> "n" [] c = "O" -> "o" [] c = "P" -> "p"
      [] c = "Q" -> "q" [] c = "R" -> "r" [] c = "S" -> "s" [] c = "T" -> "t"
      [] c = "U" -> "u" [] c = "V" -> "v" [] c = "W" -> "w" [] c = "X" -> "x"
      [] c = "Y" -> "y" [] c = "Z" -> "z"
      [] OTHER -> c

\* a comparison made without .lower()
lower_missing(s) == s

RECURSIVE lower(_)
lower(s) == IF s = "" THEN "" ELSE lower_char(Head(s)) \o lower(Tail(s))

RECURSIVE lstrip(_)
lstrip(s) == IF s # "" /\ Head(s) \in Whitespace THEN lstrip(Tail(s)) ELSE s

RECURSIVE rstrip(_)
rstrip(s) ==
    IF s # "" /\ CharAt(s, Len(s)) \in Whitespace
    THEN rstrip(SubSeq(s, 1, Len(s) - 1))
    ELSE s

strip(s) == rstrip(lstrip(s))

\* length of the first run of non-whitespace characters of s
RECURSIVE word_len(_)
word_len(s) ==
    IF s = "" \/ Head(s) \in Whitespace THEN 0 ELSE 1 + word_len(Tail(s))

\* s.split(maxsplit=1): <<>>, <<word>> or <<word, rest>>
split_maxsplit1(s) ==
    LET t == lstrip(s)
        n == word_len(t)
        rest == lstrip(SubSeq(t, n + 1, Len(t)))
    IN  IF t = "" THEN <<>>
        ELSE IF rest = "" THEN <<SubSeq(t, 1, n)>>
        ELSE <<SubSeq(t, 1, n), rest>>

-----------------------------------------------------------------------------
(* Prompt formatter *)

TutorialHead == "Provide a concise, practical tutorial for the Linux command: "
TutorialBody == "\n\nInclude:\n1. Brief description (1-2 sentences)\n2. Basic syntax\n3. 3-5 most useful examples with explanations\n4. Common options/flags\n5. One tip or warning\n\nKeep it practical and beginner-friendly. Use markdown formatting."
StepsHead == "Provide clear step-by-step instructions for: "
StepsBody == "\n\nFormat as:\n1. Step 1: [command] - explanation\n2. Step 2: [command] - explanation\n...\n\nInclude actual commands to run. Keep it concise and actionable. Use markdown formatting."
HistoryHead == "\n\nPrevious conversation:\n"
HistoryTail == "\n\nPlease answer the follow-up question above, maintaining context from the previous discussion."
FollowupHead == "You are helping a user learn Linux commands. Maintain context from the previous conversation and answer the follow-up question.\n\nPrevious conversation:\n"
FollowupMid == "\n\nFollow-up question: "
FollowupTail == "\n\nProvide a helpful, concise answer that builds on the previous context. Use markdown formatting where appropriate."

\* format_tutorial_prompt without the `if conversation_history:` test
format_tutorial_prompt_always_history(command, conversation_history) ==
    TutorialHead \o command \o TutorialBody \o HistoryHead \o conversation_history
        \o HistoryTail

format_tutorial_prompt(command, conversation_history) ==
    LET base_prompt == TutorialHead \o command \o TutorialBody
    IN  IF conversation_history # ""
        THEN base_prompt \o HistoryHead \o conversation_history \o HistoryTail
        ELSE base_prompt

format_stepbystep_prompt(task, conversation_history) ==
    LET base_prompt == StepsHead \o task \o StepsBody
    IN  IF conversation_history # ""
        THEN base_prompt \o HistoryHead \o conversation_history \o HistoryTail
        ELSE base_prompt

\* format_followup_prompt that keeps only the start of the history
format_followup_prompt_truncated(conversation_history, followup_question) ==
    FollowupHead
        \o (IF Len(conversation_history) > 20
            THEN SubSeq(conversation_history, 1, 20) ELSE conversation_history)
        \o FollowupMid
        \o followup_question \o FollowupTail

format_followup_prompt(conversation_history, followup_question) ==
    FollowupHead \o conversation_history \o FollowupMid \o followup_question
        \o FollowupTail

-----------------------------------------------------------------------------
(* Inference client *)

\* What GET /api/tags can come back with: a status code, or an exception of
\* requests.exceptions.RequestException (timeout, connection refused, DNS).
ProbeResults ==
    { [raised |-> FALSE, status_code |-> 200],
      [raised |-> FALSE, status_code |-> 404],
      [raised |-> FALSE, status_code |-> 500],
      [raised |-> TRUE,  status_code |-> 0] }

NoProbe == [raised |-> FALSE, status_code |-> 0]

\* check_ollama that only looks whether a response came back.
check_ollama_any_response(r) == ~r.raised

check_ollama(r) == IF r.raised THEN FALSE ELSE r.status_code = 200

\* A line of the streamed body as iter_lines() hands it over.  kind "blank"
\* is an empty line, "bad" a line json.loads() rejects, "json" an object
\* with the given keys; response is the value of its "response" key.
ChunkTexts == {"Hel", "lo", ""}

ServerLines ==
    { [kind |-> "blank", keys |-> {}, response |-> ""],
      [kind |-> "bad",   keys |-> {}, response |-> ""],
      [kind |-> "json",  keys |-> {"done"}, response |-> ""] }
    \cup { [kind |-> "json", keys |-> {"response"}, response |-> c] : c \in ChunkTexts }

\* stream_step with `data.get("response", "")` in place of the membership
\* test: a line without the key yields an empty chunk.
stream_step_get_default(line) ==
    IF line.kind = "blank" THEN [raises |-> FALSE, yields |-> FALSE, chunk |-> ""]
    ELSE IF line.kind = "bad" THEN [raises |-> TRUE, yields |-> FALSE, chunk |-> ""]
    ELSE [raises |-> FALSE, yields |-> TRUE,
          chunk |-> IF "response" \in line.keys THEN line.response ELSE ""]

\* main.py:60-65, one pass of `for line in response.iter_lines()`:
\* what the line makes the generator do.
stream_step(line) ==
    IF line.kind = "blank" THEN [raises |-> FALSE, yields |-> FALSE, chunk |-> ""]
    ELSE IF line.kind = "bad" THEN [raises |-> TRUE, yields |-> FALSE, chunk |-> ""]
    ELSE IF "response" \in line.keys
         THEN [raises |-> FALSE, yields |-> TRUE, chunk |-> line.response]
         ELSE [raises |-> FALSE, yields |-> FALSE, chunk |-> ""]

RECURSIVE concat(_)
concat(chunks) == IF chunks = <<>> THEN "" ELSE Head(chunks) \o concat(Tail(chunks))

\* main.py:59-65 run over a whole body: the chunks yielded until the body
\* ends or a line raises.
RECURSIVE stream_run(_)
stream_run(ls) ==
    IF ls = <<>> THEN [yields |-> <<>>, raised |-> FALSE]
    ELSE LET e == stream_step(Head(ls))
             rest == stream_run(Tail(ls))
         IN  IF e.raises THEN [yields |-> <<>>, raised |-> TRUE]
             ELSE IF e.yields
             THEN [yields |-> <<e.chunk>> \o rest.yields, raised |-> rest.raised]
             ELSE rest

\* response.json(): the body must be one JSON document.
json_ok(b) == Len(b) = 1 /\ b[1].kind = "json"

\* main.py:47-71.  The function body contains `yield` (line 65), so Python
\* compiles it as a generator function: every call, whatever `stream` is,
\* hands the caller a generator object.  yields are the values iterating it
\* produces; stop_value is the value of the `return` that ends it (carried
\* by StopIteration, None when returns_none); reported tells whether the
\* except clause printed the error.
ask_ollama(stream_arg, b) ==
    IF stream_arg
    THEN LET run == stream_run(b)
         IN  [type |-> "generator", yields |-> run.yields,
              stop_value |-> IF run.raised THEN "" ELSE concat(run.yields),
              returns_none |-> run.raised, reported |-> run.raised]
    ELSE IF json_ok(b)
    THEN [type |-> "generator", yields |-> <<>>,
          stop_value |-> IF "response" \in b[1].keys THEN b[1].response ELSE "",
          returns_none |-> FALSE, reported |-> FALSE]
    ELSE [type |-> "generator", yields |-> <<>>, stop_value |-> "",
          returns_none |-> TRUE, reported |-> TRUE]

NoResult ==
    [type |-> "pending", yields |-> <<>>, stop_value |-> "", returns_none |-> FALSE,
     reported |-> FALSE]

-----------------------------------------------------------------------------
(* Conversation context and follow-up detection *)

ModeWords == {"tutorial", "steps", "step"}
QuitWords == {"quit", "exit", "q"}

NoContext == [mode |-> "None", topic |-> "", history |-> ""]

\* `current_context["mode"] and current_context["topic"]`
has_context(ctx) == ctx.mode # "None" /\ ctx.topic # ""

\* parse_command passing only the text after the first word as the
\* follow-up question.
parse_command_rest(ctx, input) ==
    LET parts == split_maxsplit1(input)
    IN  IF Len(parts) < 2
        THEN IF has_context(ctx)
             THEN [outcome |-> "followup", mode |-> "", query |-> input]
             ELSE [outcome |-> "info", mode |-> "", query |-> ""]
        ELSE LET mode == lower(parts[1])
             IN  IF mode \notin ModeWords
                 THEN IF has_context(ctx)
                      THEN [outcome |-> "followup", mode |-> mode, query |-> parts[2]]
                      ELSE [outcome |-> "unknown", mode |-> mode, query |-> parts[2]]
                 ELSE [outcome |-> "fresh", mode |-> mode, query |-> parts[2]]

\* parse_command taking a single word as a follow-up without looking at
\* the context.
parse_command_no_context_check(ctx, input) ==
    LET parts == split_maxsplit1(input)
    IN  IF Len(parts) < 2
        THEN [outcome |-> "followup", mode |-> "", query |-> input]
        ELSE LET mode == lower(parts[1])
             IN  IF mode \notin ModeWords
                 THEN IF has_context(ctx)
                      THEN [outcome |-> "followup", mode |-> mode, query |-> input]
                      ELSE [outcome |-> "unknown", mode |-> mode, query |-> parts[2]]
                 ELSE [outcome |-> "fresh", mode |-> mode, query |-> parts[2]]

\* parse_command without the `continue` after the unknown-mode error: the
\* line goes on as a question.
parse_command_unknown_runs(ctx, input) ==
    LET parts == split_maxsplit1(input)
    IN  IF Len(parts) < 2
        THEN IF has_context(ctx)
             THEN [outcome |-> "followup", mode |-> "", query |-> input]
             ELSE [outcome |-> "info", mode |-> "", query |-> ""]
        ELSE LET mode == lower(parts[1])
             IN  IF mode \notin ModeWords
                 THEN [outcome |-> "followup", mode |-> mode, query |-> input]
                 ELSE [outcome |-> "fresh", mode |-> mode, query |-> parts[2]]

\* main.py:331-352.  outcome "info" and "unknown" are the two `continue`s.
parse_command(ctx, input) ==
    LET parts == split_maxsplit1(input)
    IN  IF Len(parts) < 2
        THEN IF has_context(ctx)
             THEN [outcome |-> "followup", mode |-> "", query |-> input]
             ELSE [outcome |-> "info", mode |-> "", query |-> ""]
        ELSE LET mode == lower(parts[1])
             IN  IF mode \notin ModeWords
                 THEN IF has_context(ctx)
                      THEN [outcome |-> "followup", mode |-> mode, query |-> input]
                      ELSE [outcome |-> "unknown", mode |-> mode, query |-> parts[2]]
                 ELSE [outcome |-> "fresh", mode |-> mode, query |-> parts[2]]

\* build_request that switches mode and topic but carries the old history
\* over.
build_request_keeps_history(ctx, p) ==
    IF p.outcome = "followup"
    THEN [prompt |-> format_followup_prompt(ctx.history, p.query),
          response_mode |-> "followup",
          context |-> ctx]
    ELSE IF p.mode = "tutorial"
    THEN [prompt |-> format_tutorial_prompt(p.query, ""),
          response_mode |-> "tutorial",
          context |-> [mode |-> "tutorial", topic |-> p.query, history |-> ctx.history]]
    ELSE [prompt |-> format_stepbystep_prompt(p.query, ""),
          response_mode |-> "steps",
          context |-> [mode |-> "steps", topic |-> p.query, history |-> ctx.history]]

\* build_request that stores the mode word as typed ("step" stays "step")
build_request_raw_mode(ctx, p) ==
    IF p.outcome = "followup"
    THEN [prompt |-> format_followup_prompt(ctx.history, p.query),
          response_mode |-> "followup",
          context |-> ctx]
    ELSE IF p.mode = "tutorial"
    THEN [prompt |-> format_tutorial_prompt(p.query, ""),
          response_mode |-> "tutorial",
          context |-> [mode |-> p.mode, topic |-> p.query, history |-> ""]]
    ELSE [prompt |-> format_stepbystep_prompt(p.query, ""),
          response_mode |-> "steps",
          context |-> [mode |-> p.mode, topic |-> p.query, history |-> ""]]

\* main.py:354-368: the prompt, the response mode and the context the
\* request is made with.
build_request(ctx, p) ==
    IF p.outcome = "followup"
    THEN [prompt |-> format_followup_prompt(ctx.history, p.query),
          response_mode |-> "followup",
          context |-> ctx]
    ELSE IF p.mode = "tutorial"
    THEN [prompt |-> format_tutorial_prompt(p.query, ""),
          response_mode |-> "tutorial",
          context |-> [mode |-> "tutorial", topic |-> p.query, history |-> ""]]
    ELSE [prompt |-> format_stepbystep_prompt(p.query, ""),
          response_mode |-> "steps",
          context |-> [mode |-> "steps", topic |-> p.query, history |-> ""]]

\* update_history that assigns the seed entry every time instead of
\* appending.
update_history_reseeds(ctx, q, response) ==
    [ctx EXCEPT !.history = "Topic: " \o ctx.topic \o "\nUser: " \o q
                            \o "\nAssistant: " \o response \o "\n"]

\* main.py:382-386
update_history(ctx, q, response) ==
    IF ctx.history # ""
    THEN [ctx EXCEPT !.history = @ \o "\nUser: " \o q \o "\nAssistant: " \o response \o "\n"]
    ELSE [ctx EXCEPT !.history = "Topic: " \o ctx.topic \o "\nUser: " \o q
                                 \o "\nAssistant: " \o response \o "\n"]

-----------------------------------------------------------------------------
(* Session loop *)

\* The lines the user types (before .strip()).
RawInputs ==
    { "", "  ", "quit", "Exit", " q", "help", "CLEAR ",
      "Tutorial  sed", "steps find x", "STEP ls",
      "steps", "what about -v?" }

Init ==
    /\ pc = "start"
    /\ current_context = NoContext
    /\ user_input = ""
    /\ is_followup = FALSE
    /\ query = ""
    /\ prompt = ""
    /\ response_mode = ""
    /\ full_response = ""
    /\ gen_full = ""
    /\ lines = <<>>
    /\ delivered = <<>>
    /\ shown = {}
    /\ calls = 0
    /\ streamed = 0
    /\ prev_context = NoContext
    /\ stream = TRUE
    /\ body = <<>>
    /\ result = NoResult
    /\ probe = NoProbe
    /\ available = FALSE

turn_locals == <<is_followup, query, prompt, response_mode, full_response>>
counters == <<calls, streamed>>
direct == <<stream, body, result>>
probed == <<probe, available>>
generator == <<gen_full, lines, delivered>>

\* Startup without the sys.exit(1): the error is shown and the loop starts.
Startup_no_exit ==
    /\ pc = "start"
    /\ \E r \in ProbeResults :
          /\ probe' = r
          /\ available' = check_ollama(r)
          /\ IF check_ollama(r)
             THEN pc' = "prompt" /\ shown' = {"welcome"}
             ELSE pc' = "prompt" /\ shown' = {"cannot_connect"}
    /\ UNCHANGED <<current_context, user_input, turn_locals, generator, counters,
                   prev_context>>
    /\ UNCHANGED direct

\* main.py:278-293
Startup ==
    /\ pc = "start"
    /\ \E r \in ProbeResults :
          /\ probe' = r
          /\ available' = check_ollama(r)
          /\ IF check_ollama(r)
             THEN pc' = "prompt" /\ shown' = {"welcome"}
             ELSE pc' = "exit1" /\ shown' = {"cannot_connect"}
    /\ UNCHANGED <<current_context, user_input, turn_locals, generator, counters,
                   prev_context>>
    /\ UNCHANGED direct

\* the status the process ends with: sys.exit(1) at main.py:287, or main()
\* returning after the `break` at main.py:319
Exited == pc \in {"exit1", "done"}
exit_code == IF pc = "exit1" THEN 1 ELSE 0

\* main.py:297-372: read a line, classify it, and either go back to the top
\* of the loop, leave the loop, or build the prompt and call ask_ollama().
ReadInput ==
    /\ pc = "prompt"
    /\ \E raw \in RawInputs :
        LET inp == strip(raw)
            p   == parse_command(current_context, inp)
            r   == build_request(current_context, p)
        IN  /\ user_input' = inp
            /\ prev_context' = current_context
            /\ IF inp = ""
               THEN /\ shown' = {}
                    /\ pc' = "prompt"
                    /\ UNCHANGED <<current_context, turn_locals, calls>>
               ELSE IF lower(inp) \in QuitWords
               THEN /\ shown' = {"farewell"}
                    /\ pc' = "done"
                    /\ UNCHANGED <<current_context, turn_locals, calls>>
               ELSE IF lower(inp) = "clear" \/ lower(inp) = "help"
               THEN /\ shown' = {"welcome"}
                    /\ pc' = "prompt"
                    /\ UNCHANGED <<current_context, turn_locals, calls>>
               ELSE IF p.outcome = "info"
               THEN /\ shown' = {"info"}
                    /\ pc' = "prompt"
                    /\ is_followup' = FALSE
                    /\ UNCHANGED <<current_context, query, prompt, response_mode,
                                   full_response, calls>>
               ELSE IF p.outcome = "unknown"
               THEN /\ shown' = {"unknown_mode"}
                    /\ pc' = "prompt"
                    /\ is_followup' = FALSE
                    /\ query' = p.query
                    /\ UNCHANGED <<current_context, prompt, response_mode,
                                   full_response, calls>>
               ELSE /\ calls < MaxCalls
                    /\ shown' = {}
                    /\ is_followup' = (p.outcome = "followup")
                    /\ query' = p.query
                    /\ prompt' = r.prompt
                    /\ response_mode' = r.response_mode
                    /\ current_context' = r.context
                    /\ full_response' = ""
                    /\ calls' = calls + 1
                    /\ pc' = "post"
    /\ UNCHANGED <<generator, streamed>>
    /\ UNCHANGED direct
    /\ UNCHANGED probed

\* main.py:56-58: requests.post() returns and the generator starts reading.
Post ==
    /\ pc = "post"
    /\ pc' = "stream"
    /\ gen_full' = ""
    /\ UNCHANGED <<current_context, user_input, turn_locals, lines, delivered,
                   shown, counters, prev_context>>
    /\ UNCHANGED direct
    /\ UNCHANGED probed

\* main.py:59-65 and 375-376: the next line of the body arrives.
StreamLine ==
    /\ pc = "stream"
    /\ streamed < MaxLines
    /\ \E line \in ServerLines :
        LET e == stream_step(line)
        IN  /\ lines' = Append(lines, line)
            /\ streamed' = streamed + 1
            /\ IF e.raises
               THEN /\ shown' = shown \cup {"ollama_error"}
                    /\ pc' = "display"
                    /\ UNCHANGED <<gen_full, delivered, full_response>>
               ELSE IF e.yields
               THEN /\ gen_full' = gen_full \o e.chunk
                    /\ delivered' = Append(delivered, e.chunk)
                    /\ full_response' = full_response \o e.chunk
                    /\ UNCHANGED <<pc, shown>>
               ELSE UNCHANGED <<pc, shown, gen_full, delivered, full_response>>
    /\ UNCHANGED <<current_context, user_input, is_followup, query, prompt,
                   response_mode, calls, prev_context>>
    /\ UNCHANGED direct
    /\ UNCHANGED probed

\* main.py:66: the body is exhausted, the generator returns.
StreamEnd ==
    /\ pc = "stream"
    /\ pc' = "display"
    /\ UNCHANGED <<current_context, user_input, turn_locals, generator, shown,
                   counters, streamed, prev_context>>
    /\ UNCHANGED direct
    /\ UNCHANGED probed

\* TransportError that posts the request again instead of giving up.
TransportError_retries ==
    /\ pc \in {"post", "stream"}
    /\ calls < MaxCalls
    /\ shown' = shown \cup {"ollama_error"}
    /\ calls' = calls + 1
    /\ pc' = "post"
    /\ UNCHANGED <<current_context, user_input, turn_locals, generator, streamed,
                   prev_context>>
    /\ UNCHANGED direct
    /\ UNCHANGED probed

\* main.py:69-71: requests.post() or iter_lines() raises; ask_ollama()
\* prints the error and returns None, which ends the for loop of main().
TransportError ==
    /\ pc \in {"post", "stream"}
    /\ shown' = shown \cup {"ollama_error"}
    /\ pc' = "display"
    /\ UNCHANGED <<current_context, user_input, turn_locals, generator, counters,
                   prev_context>>
    /\ UNCHANGED direct
    /\ UNCHANGED probed

\* main.py:378-390
Display ==
    /\ pc = "display"
    /\ IF full_response # ""
       THEN /\ shown' = shown \cup {"response"}
            /\ current_context' = update_history(current_context, query, full_response)
       ELSE /\ shown' = shown \cup {"no_response"}
            /\ UNCHANGED current_context
    /\ pc' = "prompt"
    /\ gen_full' = ""
    /\ lines' = <<>>
    /\ delivered' = <<>>
    /\ UNCHANGED <<user_input, turn_locals, counters, prev_context>>
    /\ UNCHANGED direct
    /\ UNCHANGED probed

\* Interrupt without the `except KeyboardInterrupt` clause: Ctrl-C ends the
\* loop.
Interrupt_unhandled ==
    /\ pc \in {"prompt", "post", "stream"}
    /\ IF pc = "prompt"
       THEN shown' = {"interrupted"} /\ prev_context' = current_context
       ELSE shown' = shown \cup {"interrupted"} /\ UNCHANGED prev_context
    /\ pc' = "done"
    /\ gen_full' = ""
    /\ lines' = <<>>
    /\ delivered' = <<>>
    /\ UNCHANGED <<current_context, user_input, turn_locals, counters>>
    /\ UNCHANGED direct
    /\ UNCHANGED probed

\* main.py:392-393: Ctrl-C while Prompt.ask() waits or while the response
\* is drained.
Interrupt ==
    /\ pc \in {"prompt", "post", "stream"}
    /\ IF pc = "prompt"
       THEN shown' = {"interrupted"} /\ prev_context' = current_context
       ELSE shown' = shown \cup {"interrupted"} /\ UNCHANGED prev_context
    /\ pc' = "prompt"
    /\ gen_full' = ""
    /\ lines' = <<>>
    /\ delivered' = <<>>
    /\ UNCHANGED <<current_context, user_input, turn_locals, counters>>
    /\ UNCHANGED direct
    /\ UNCHANGED probed

\* main.py:394-395: Prompt.ask() raises (EOFError on a closed stdin).
InputError ==
    /\ pc = "prompt"
    /\ shown' = {"unexpected"}
    /\ prev_context' = current_context
    /\ UNCHANGED <<pc, current_context, user_input, turn_locals, generator, counters>>
    /\ UNCHANGED direct
    /\ UNCHANGED probed

Next ==
    \/ Startup
    \/ ReadInput
    \/ Post
    \/ StreamLine
    \/ StreamEnd
    \/ TransportError
    \/ Display
    \/ Interrupt
    \/ InputError

Spec == Init /\ [][Next]_vars

-----------------------------------------------------------------------------
(* ask_ollama() called directly, with either value of `stream` *)

RECURSIVE Bodies(_)
Bodies(n) ==
    IF n = 0 THEN {<<>>}
    ELSE Bodies(n - 1) \cup { Append(b, l) : b \in Bodies(n - 1), l \in ServerLines }

ClientInit ==
    /\ pc = "call"
    /\ stream \in BOOLEAN
    /\ body \in Bodies(MaxLines)
    /\ result = NoResult
    /\ probe = NoProbe
    /\ available = FALSE
    /\ current_context = NoContext
    /\ user_input = ""
    /\ is_followup = FALSE
    /\ query = ""
    /\ prompt \in {TutorialHead \o "grep" \o TutorialBody, StepsHead \o "ls" \o StepsBody}
    /\ response_mode = ""
    /\ full_response = ""
    /\ gen_full = ""
    /\ lines = <<>>
    /\ delivered = <<>>
    /\ shown = {}
    /\ calls = 0
    /\ streamed = 0
    /\ prev_context = NoContext

ClientCall ==
    /\ pc = "call"
    /\ result' = ask_ollama(stream, body)
    /\ pc' = "returned"
    /\ UNCHANGED <<current_context, user_input, turn_locals, generator, shown,
                   counters, prev_context, stream, body>>
    /\ UNCHANGED probed

ClientSpec == ClientInit /\ [][ClientCall]_vars

-----------------------------------------------------------------------------
(* The prompt formatters called directly, with and without history *)

Topics == {"grep", "sed", "ls -l", "find x", "tar", "Previous conversation", "a"}

SeedHistories ==
    { update_history([NoContext EXCEPT !.topic = t], t, r).history :
        t \in {"sed", "ls -l"}, r \in {"Hel", "lo"} }

Histories ==
    {""} \cup SeedHistories
         \cup { update_history([NoContext EXCEPT !.history = h], "what about -v?", r).history :
                  h \in SeedHistories, r \in {"Hel", "lo"} }

PromptInit ==
    /\ pc = "format"
    /\ query \in Topics
    /\ response_mode \in {"tutorial", "steps"}
    /\ \E h \in Histories : current_context = [NoContext EXCEPT !.history = h]
    /\ prompt = ""
    /\ user_input = ""
    /\ is_followup = FALSE
    /\ full_response = ""
    /\ gen_full = ""
    /\ lines = <<>>
    /\ delivered = <<>>
    /\ shown = {}
    /\ calls = 0
    /\ streamed = 0
    /\ prev_context = NoContext
    /\ stream = TRUE
    /\ body = <<>>
    /\ result = NoResult
    /\ probe = NoProbe
    /\ available = FALSE

FormatPrompt ==
    /\ pc = "format"
    /\ prompt' = IF response_mode = "tutorial"
                 THEN format_tutorial_prompt(query, current_context.history)
                 ELSE format_stepbystep_prompt(query, current_context.history)
    /\ pc' = "formatted"
    /\ UNCHANGED <<current_context, user_input, is_followup, query, response_mode,
                   full_response, generator, shown, counters, prev_context>>
    /\ UNCHANGED direct
    /\ UNCHANGED probed

PromptSpec == PromptInit /\ [][FormatPrompt]_vars

-----------------------------------------------------------------------------
(* The earlier, context-free version of the loop (main copy.py) *)

OldTutorialHead == "Provide a concise, practical tutorial for the Linux command: "
OldTutorialBody == "\n\nInclude:\n1. Brief description (1-2 sentences)\n2. Basic syntax\n3. 3-5 most useful examples with explanations\n4. Common options/flags\n5. One tip or warning\n\nKeep it practical and beginner-friendly. Use markdown formatting."
OldStepsHead == "Provide clear step-by-step instructions for: "
OldStepsBody == "\n\nFormat as:\n1. Step 1: [command] - explanation\n2. Step 2: [command] - explanation\n...\n\nInclude actual commands to run. Keep it concise and actionable. Use markdown formatting."

old_format_tutorial_prompt(command) == OldTutorialHead \o command \o OldTutorialBody
old_format_stepbystep_prompt(task) == OldStepsHead \o task \o OldStepsBody

\* main copy.py:116-146: what one line makes the old loop do: "continue",
\* "break", or "request" with the prompt it sends.
old_main(raw) ==
    LET inp == strip(raw)
        parts == split_maxsplit1(inp)
    IN  IF inp = "" THEN [action |-> "continue", prompt |-> ""]
        ELSE IF lower(inp) \in {"quit", "exit", "q"}
        THEN [action |-> "break", prompt |-> ""]
        ELSE IF lower(inp) = "help" THEN [action |-> "continue", prompt |-> ""]
        ELSE IF Len(parts) < 2 THEN [action |-> "continue", prompt |-> ""]
        ELSE IF lower(parts[1]) = "tutorial"
        THEN [action |-> "request", prompt |-> old_format_tutorial_prompt(parts[2])]
        ELSE IF lower(parts[1]) \in {"steps", "step"}
        THEN [action |-> "request", prompt |-> old_format_stepbystep_prompt(parts[2])]
        ELSE [action |-> "continue", prompt |-> ""]

-----------------------------------------------------------------------------
(* Vocabulary of the properties *)

Active(ctx) == ctx.mode # "None"
Idle(ctx) == ctx.mode = "None"

\* a recognized mode word followed by a second token
IsFresh(inp) ==
    LET parts == split_maxsplit1(inp)
    IN  Len(parts) = 2 /\ lower(parts[1]) \in ModeWords

FreshMode(inp) ==
    IF lower(split_maxsplit1(inp)[1]) = "tutorial" THEN "tutorial" ELSE "steps"

FreshRest(inp) == split_maxsplit1(inp)[2]

IsControl(inp) ==
    inp = "" \/ lower(inp) \in QuitWords \cup {"help", "clear"}

\* a step of the loop that read a line (and was not cut short by Ctrl-C or
\* an exception of Prompt.ask)
ReadStep ==
    /\ pc = "prompt"
    /\ "interrupted" \notin shown'
    /\ "unexpected" \notin shown'

TurnOver == pc = "prompt"
InTurn == pc \in {"post", "stream", "display"}

-----------------------------------------------------------------------------
(* C1 - C10 *)

\* C1: a turn whose generation call ends with an empty or failed result
\* leaves the context (mode, topic, history) as it was before the turn,
\* for fresh commands and follow-ups alike.
C1_ContextUnchangedOnFailure ==
    (TurnOver /\ "no_response" \in shown) => current_context = prev_context

\* C2: a transport or decode error at any point of the stream, also after
\* fragments were delivered, makes the turn "no response": nothing is
\* rendered and nothing is written to history.
C2_ErrorMeansNoResponse ==
    (TurnOver /\ "ollama_error" \in shown) =>
        /\ "response" \notin shown
        /\ current_context.history \in {prev_context.history, ""}

\* C3: in any state, a line whose first word lowercased is tutorial, steps
\* or step and which has a second token is dispatched as a fresh command:
\* mode is tutorial or steps, topic is the rest of the line, history is
\* empty, and the prompt is the mode's template with no history block.
C3_FreshCommandResets ==
    [][ (ReadStep /\ IsFresh(user_input')) =>
          /\ pc' = "post"
          /\ ~is_followup'
          /\ current_context' = [mode |-> FreshMode(user_input'),
                                 topic |-> FreshRest(user_input'),
                                 history |-> ""]
          /\ prompt' = IF FreshMode(user_input') = "tutorial"
                       THEN TutorialHead \o FreshRest(user_input') \o TutorialBody
                       ELSE StepsHead \o FreshRest(user_input') \o StepsBody
          /\ (user_input' = "Tutorial  sed" =>
                current_context' = [mode |-> "tutorial", topic |-> "sed", history |-> ""])
          /\ (user_input' = "STEP ls" =>
                current_context' = [mode |-> "steps", topic |-> "ls", history |-> ""])
      ]_vars

C3_Witness ==
    /\ pc = "post"
    /\ user_input = "Tutorial  sed"
    /\ prev_context.history # ""
    /\ prev_context.mode = "steps"
    /\ current_context = [mode |-> "tutorial", topic |-> "sed", history |-> ""]

\* C4: in the Active state every line that is not empty, not
\* quit/exit/q/help/clear and not a fresh command is a follow-up: the prompt
\* is the follow-up template over the current history and the whole line,
\* and the turn leaves mode and topic alone.
C4_FollowupDetection ==
    [][ /\ (ReadStep /\ Active(current_context) /\ ~IsControl(user_input')
                /\ ~IsFresh(user_input')) =>
              /\ pc' = "post"
              /\ is_followup'
              /\ query' = user_input'
              /\ prompt' = FollowupHead \o current_context.history \o FollowupMid
                               \o user_input' \o FollowupTail
              /\ current_context' = current_context
        /\ (InTurn /\ is_followup) =>
              /\ current_context'.mode = current_context.mode
              /\ current_context'.topic = current_context.topic
      ]_vars

C4_Witness ==
    /\ pc = "post"
    /\ is_followup
    /\ user_input = "what about -v?"
    /\ current_context.history # ""
    /\ prompt = FollowupHead \o current_context.history \o FollowupMid
                    \o "what about -v?" \o FollowupTail

\* C5: after a turn that produced a non-empty response R for query Q,
\* history is "Topic: {topic}\nUser: Q\nAssistant: R\n" if it was empty when
\* the response arrived, and the previous history followed by
\* "\nUser: Q\nAssistant: R\n" otherwise; so a fresh command and its
\* follow-ups leave the seed entry followed by the follow-up entries in
\* turn order.
C5_HistoryAccumulates ==
    (TurnOver /\ "response" \in shown) =>
        LET before == IF is_followup THEN prev_context.history ELSE ""
            entry  == "User: " \o query \o "\nAssistant: " \o full_response \o "\n"
        IN  /\ full_response # ""
            /\ current_context.history =
                  IF before = ""
                  THEN "Topic: " \o current_context.topic \o "\n" \o entry
                  ELSE before \o "\n" \o entry
            /\ (~is_followup => query = current_context.topic)

C5_Witness ==
    /\ TurnOver
    /\ "response" \in shown
    /\ is_followup
    /\ current_context.history =
          "Topic: sed\nUser: sed\nAssistant: Hel\n\nUser: what about -v?\nAssistant: lo\n"

\* C6: mode and topic are both set (mode tutorial or steps, topic not
\* empty) or both unset (mode None, topic ""), and a follow-up request is
\* only made from a state where both are set.
C6_ModeTopicTogether ==
    /\ \/ current_context.mode \in {"tutorial", "steps"} /\ current_context.topic # ""
       \/ current_context.mode = "None" /\ current_context.topic = ""
    /\ (InTurn /\ is_followup) =>
          /\ current_context.mode \in {"tutorial", "steps"}
          /\ current_context.topic # ""
          /\ prev_context.mode \in {"tutorial", "steps"}
          /\ prev_context.topic # ""

C6_Witness ==
    /\ pc = "post"
    /\ is_followup
    /\ current_context.mode = "steps"
    /\ current_context.topic = "find x"

\* C7: in the Idle state a line with no second token, or whose first word is
\* not tutorial/steps/step, makes no inference call and leaves the context
\* unchanged and Idle; the lines that reach the command parser (not empty,
\* not quit/exit/q) get a message and the loop goes on to the next prompt.
C7_IdleBareInput ==
    [][ (ReadStep /\ Idle(current_context) /\ ~IsFresh(user_input')) =>
          /\ calls' = calls
          /\ pc' # "post"
          /\ current_context' = current_context
          /\ Idle(current_context')
          /\ (user_input' # "" /\ lower(user_input') \notin QuitWords) =>
                pc' = "prompt" /\ shown' # {}
          /\ ~IsControl(user_input') =>
                shown' = IF Len(split_maxsplit1(user_input')) < 2
                         THEN {"info"} ELSE {"unknown_mode"}
      ]_vars

C7_Witness ==
    /\ pc = "prompt"
    /\ Idle(current_context)
    /\ user_input = "what about -v?"
    /\ shown = {"unknown_mode"}
    /\ calls = 0

\* the response fields of the lines that have one, in arrival order
RECURSIVE ResponseFields(_)
ResponseFields(ls) ==
    IF ls = <<>> THEN <<>>
    ELSE LET l == Head(ls)
         IN  (IF l.kind = "json" /\ "response" \in l.keys THEN <<l.response>> ELSE <<>>)
                 \o ResponseFields(Tail(ls))

\* C8: the fragments delivered to the caller are exactly the response
\* fields of the streamed lines that have one, in arrival order, each once;
\* the assembled response is their concatenation; lines without a response
\* key and blank lines contribute nothing.
C8_StreamingDecode ==
    (pc \in {"stream", "display"}) =>
        /\ delivered = ResponseFields(lines)
        /\ full_response = concat(ResponseFields(lines))
        /\ gen_full = full_response

C8_Witness ==
    /\ pc = "display"
    /\ Len(lines) = 2
    /\ lines[1].kind = "json" /\ lines[1].response = "lo"
    /\ lines[2].kind = "json" /\ lines[2].response = "Hel"
    /\ full_response = "loHel"

\* C9: called with stream = false, ask_ollama hands its caller the response
\* field of the single parsed JSON body as the result of the call.
C9_NonStreamingReturnsResponse ==
    (pc = "returned" /\ ~stream /\ json_ok(body) /\ "response" \in body[1].keys) =>
        /\ result.type = "value"
        /\ result.stop_value = body[1].response

\* C10: the running loop ends only through a line equal, case-insensitively,
\* to quit, exit or q, from Idle and Active alike; Ctrl-C or an exception
\* during input or during a turn never ends it: control is back at the
\* prompt.
C10_OnlyQuitTerminates ==
    [][ /\ (pc' = "done" /\ pc # "done") =>
              (ReadStep /\ lower(user_input') \in QuitWords)
        /\ (ReadStep /\ lower(user_input') \in QuitWords) => pc' = "done"
        /\ (pc \in {"prompt", "post", "stream", "display"}
              /\ shown' \cap {"interrupted", "unexpected", "ollama_error"} # {}) =>
              pc' \in {"prompt", "display"}
        /\ ("interrupted" \in shown' \/ "unexpected" \in shown') => pc' = "prompt"
      ]_vars

C10_Witness ==
    /\ pc = "prompt"
    /\ "interrupted" \in shown
    /\ Active(current_context)
    /\ prev_context # current_context
    /\ full_response # ""

-----------------------------------------------------------------------------
(* C11 - C20 *)

ProbeFailed == probe.raised \/ probe.status_code # 200

\* C11: if the availability probe fails at startup the process exits with
\* code 1 before any line is read and before any generation request; in
\* every other run the only exit is the graceful quit, with code 0.
C11_ExitCodes ==
    /\ (pc # "start" /\ ProbeFailed) => (Exited /\ exit_code = 1)
    /\ (Exited /\ exit_code = 1) =>
          /\ ProbeFailed
          /\ calls = 0
          /\ streamed = 0
          /\ user_input = ""
          /\ prompt = ""
          /\ current_context = NoContext
    /\ (Exited /\ ~ProbeFailed) =>
          /\ exit_code = 0
          /\ lower(user_input) \in QuitWords
          /\ "farewell" \in shown

C11_Witness ==
    /\ Exited
    /\ exit_code = 1
    /\ probe.raised
    /\ shown = {"cannot_connect"}

\* C15: the availability probe yields true only on HTTP 200; for any other
\* status and for any network failure it yields false, and the failure is
\* never propagated: startup ends in the loop or in the orderly exit.
C15_ProbeOnly200 ==
    (pc # "start") =>
        /\ available <=> (~probe.raised /\ probe.status_code = 200)
        /\ (probe.raised => ~available /\ pc = "exit1")
        /\ (pc = "exit1" <=> ~available)

C15_Witness ==
    /\ pc = "exit1"
    /\ ~probe.raised
    /\ probe.status_code = 404
    /\ ~available

\* C12: no retries: a line causes at most one generation request, a failed
\* request is not issued again without a new line, and a failure is shown
\* once.
C12_NoRetries ==
    [][ /\ calls' \in {calls, calls + 1}
        /\ (calls' # calls) => (ReadStep /\ pc' = "post")
        /\ (pc' = "post") => (pc = "prompt" /\ calls' = calls + 1)
        /\ (pc = "display") => (pc' = "prompt" /\ calls' = calls)
        /\ (pc = "display" /\ full_response = "") => "no_response" \in shown'
        /\ ("ollama_error" \in shown) => ("ollama_error" \in shown' \/ pc = "prompt")
        /\ ("ollama_error" \in shown') => pc' \in {"display", "prompt"}
        /\ ("no_response" \in shown') => pc' = "prompt"
      ]_vars

C12_Witness ==
    /\ pc = "prompt"
    /\ shown = {"ollama_error", "no_response"}
    /\ calls = 1
    /\ is_followup = FALSE

IsPrefix(a, b) == Len(a) <= Len(b) /\ SubSeq(b, 1, Len(a)) = a

Contains(s, sub) ==
    \E i \in 1..(Len(s) - Len(sub) + 1) : SubSeq(s, i, i + Len(sub) - 1) = sub

\* C13: between two fresh commands history is append-only: in every turn
\* that is not a fresh command the history before is a prefix of the
\* history after, and a follow-up prompt holds the whole history.
C13_HistoryAppendOnly ==
    [][ /\ ~(ReadStep /\ IsFresh(user_input')) =>
              IsPrefix(current_context.history, current_context'.history)
        /\ (pc = "prompt" /\ pc' = "post" /\ is_followup') =>
              /\ Contains(prompt', current_context.history)
              /\ Len(prompt') = Len(FollowupHead) + Len(current_context.history)
                                  + Len(FollowupMid) + Len(user_input')
                                  + Len(FollowupTail)
      ]_vars

C13_Witness ==
    /\ pc = "prompt"
    /\ "response" \in shown
    /\ response_mode = "followup"
    /\ prev_context.history # ""
    /\ current_context.history # prev_context.history
    /\ IsPrefix(prev_context.history, current_context.history)

\* C14: the empty line and the lines help and clear (in any case) change
\* nothing in Idle or Active: mode, topic and history stay and no inference
\* call is made.
C14_ControlInputsNoTransition ==
    [][ (ReadStep /\ (user_input' \in {"", "help", "CLEAR"}
                        \/ lower(user_input') \in {"help", "clear"})) =>
          /\ current_context' = current_context
          /\ calls' = calls
          /\ pc' = "prompt"
          /\ shown' = IF user_input' = "" THEN {} ELSE {"welcome"}
      ]_vars

C14_Witness ==
    /\ pc = "prompt"
    /\ user_input = "CLEAR"
    /\ shown = {"welcome"}
    /\ Active(current_context)
    /\ current_context.history # ""

\* C16 as stated: for any topic T, tutorialPrompt(T, "") contains T and does
\* not contain "Previous conversation"; for non-empty H, tutorialPrompt(T, H)
\* contains both T and H.
C16_TutorialPromptAnyTopic ==
    (pc = "formatted" /\ response_mode = "tutorial") =>
        /\ Contains(prompt, query)
        /\ (current_context.history = "") => ~Contains(prompt, "Previous conversation")
        /\ (current_context.history # "") => Contains(prompt, current_context.history)

\* C16, amended: for any topic T, tutorialPrompt(T, "") contains T and, when
\* T does not itself contain "Previous conversation", does not contain that
\* string; for non-empty H, tutorialPrompt(T, H) contains both T and H.
C16_TutorialPrompt ==
    (pc = "formatted" /\ response_mode = "tutorial") =>
        /\ Contains(prompt, query)
        /\ (current_context.history = "" /\ ~Contains(query, "Previous conversation")) =>
              ~Contains(prompt, "Previous conversation")
        /\ (current_context.history # "") =>
              /\ Contains(prompt, current_context.history)
              /\ Contains(prompt, "Previous conversation")

C16_Witness ==
    /\ pc = "formatted"
    /\ response_mode = "tutorial"
    /\ query = "grep"
    /\ current_context.history = ""
    /\ prompt = TutorialHead \o "grep" \o TutorialBody

\* C17: whenever the context is Active at an input prompt, history is not
\* empty, so a follow-up prompt is never built from an empty history.
C17_ActiveHistoryNonEmpty ==
    /\ (pc = "prompt" /\ Active(current_context)) => current_context.history # ""
    /\ (InTurn /\ is_followup) => prev_context.history # ""

\* C18: a non-empty history begins with "Topic: " followed by the current
\* topic.
C18_HistoryOfCurrentTopic ==
    (current_context.history # "") =>
        IsPrefix("Topic: " \o current_context.topic \o "\n", current_context.history)

C18_Witness ==
    /\ pc = "prompt"
    /\ prev_context.history # ""
    /\ prev_context.topic # current_context.topic
    /\ current_context.history # ""
    /\ current_context.topic = "sed"

\* C19: Active is absorbing: once mode is set it is never unset; mode stays
\* within None, tutorial, steps; the word step is stored as steps.
C19_ActiveAbsorbing ==
    [][ /\ Active(current_context) => Active(current_context')
        /\ current_context'.mode \in {"None", "tutorial", "steps"}
        /\ (ReadStep /\ user_input' = "STEP ls") => current_context'.mode = "steps"
      ]_vars

C19_Witness ==
    /\ pc = "prompt"
    /\ "interrupted" \in shown
    /\ user_input = "STEP ls"
    /\ current_context.mode = "steps"
    /\ current_context.history = ""
    /\ prev_context.mode = "tutorial"

\* C20: while the context is Idle, main.py and the earlier context-free
\* version decide alike on every line: both make one request with the same
\* prompt text or neither makes one, and both end on the same lines.
C20_IdleMatchesOldVersion ==
    [][ (ReadStep /\ Idle(current_context)) =>
          LET old == old_main(user_input')
          IN  /\ (old.action = "request") <=> (pc' = "post")
              /\ (old.action = "request") => (prompt' = old.prompt /\ calls' = calls + 1)
              /\ (old.action # "request") => calls' = calls
              /\ (old.action = "break") <=> (pc' = "done")
      ]_vars

C20_Witness ==
    /\ pc = "post"
    /\ prev_context = NoContext
    /\ user_input = "STEP ls"
    /\ calls = 1
    /\ prompt = old_main("STEP ls").prompt

====
